---- MODULE Spec2Model ----
(***************************************************************************)
(* Debate session lifecycle, message ledger and real-time channel of       *)
(* DebateSphere.                                                           *)
(*                                                                         *)
(* The server is one Node.js process: a handler runs until its next await  *)
(* (a database call or the external scoring call) and other handlers run   *)
(* in between.  Each action below is one such segment: the effect of the   *)
(* awaited call together with the synchronous code up to the next await.   *)
(* A Mongoose document is a private in-memory copy of the stored one;      *)
(* save() writes back only the paths that were assigned a different value  *)
(* (the modified paths), and nothing in the schemas enables optimistic     *)
(* concurrency.                                                            *)
(***************************************************************************)
EXTENDS Integers, Sequences, FiniteSets, TLC

----------------------------------------------------------------------------
(* Bounds of the model *)

MaxProcs == 2       \* handler invocations in flight at once
MaxMsgs == 3        \* messages ever created
MaxTime == 4        \* clock ticks
MaxSessions == 2    \* sessions ever created
MaxEnded == 0       \* sessions that have ended when another one is started
MaxSockets == 2     \* real-time connections ever opened
MaxLedger == 2      \* messages of a ledger handed to the analysis
MaxLines == 4       \* lines of a completion of the generation service
MaxStored == 3      \* messages of a short stored ledger
MaxStamp == 2       \* timestamps of a short stored ledger

----------------------------------------------------------------------------
(* Program constants *)

MsPerSecond == 1000         \* aiService.js:887  (new Date() - startTime) / 1000
MsPerMinute == 60000        \* DebateSession.js:247  / (1000 * 60)
TimeLimit == 1800           \* aiService.js:727  timeLimit = 1800 (seconds)
FallbackScore == 5          \* aiService.js:533  overallScore of the parse fallback
ZeroScore == 0              \* aiService.js:97   overallScore with no user message
MinScore == 0               \* topics.js:682  min of a score path
MaxScore == 100             \* topics.js:683  max of a score path
MaxSuggestions == 3         \* aiService.js:692  suggestions.slice(0, 3)
DefaultLimit == 50          \* aiService.js:816  limit = 50
MaxLimit == 100             \* unnamed/part_000:537  isInt({ min: 1, max: 100 })

TickMs == 10 * MsPerMinute  \* one clock tick: ten minutes, in milliseconds

Null == -1                  \* null / undefined of a Date or Number path
Undefined == -1
NaN == -3                   \* Math.round of a sum with an undefined term

Procs == 1..MaxProcs
SessionIds == 1..MaxSessions
Sockets == 1..MaxSockets
ParsedScores == {50}        \* an overallScore parsed from the scoring reply
ParsedSubScores == {40, 50} \* sub-scores parsed from the scoring reply

Terminal == {"completed", "abandoned"}
Live == {"active", "paused"}

(* The User collection: the owner of the sessions, another user and a       *)
(* deactivated account.  Any other id names no user.                        *)
Owner == 1
Other == 2
Deactivated == 3
Unknown == 4
User == [id \in {Owner, Other, Deactivated} |-> [isActive |-> id # Deactivated]]

(* What a handshake presents: no token, a token jwt.verify throws on (bad   *)
(* signature, expired), or a token that verifies and decodes to an id.      *)
NoToken == [kind |-> "none", id |-> 0]
Tokens ==
  {[kind |-> "missing", id |-> 0], [kind |-> "invalid", id |-> 0]}
    \cup {[kind |-> "valid", id |-> i] : i \in {Owner, Other, Deactivated, Unknown}}

(* The reaction types sent and the users who react through the model       *)
(* method; the type of a subdocument that was given none.                  *)
ReactionTypes == {"like", "dislike"}
Reactors == {Owner}
NoType == "undefined"

----------------------------------------------------------------------------
(* State *)

VARIABLES
  now,        \* wall clock, milliseconds
  sessions,   \* DebateSession collection: id -> stored document
  messages,   \* DebateMessage collection, in creation order
  metrics,    \* PerformanceMetrics collection: session id -> stored document
  procs,      \* handler invocations in flight: position and in-memory document
  delivered,  \* session id -> turn number of the last 'new-message' sent to its room
  out,        \* what the step just taken reported: a response, events
  sockets,    \* real-time connections: state and socket.user
  rooms,      \* socket.io rooms session:<id>: session id -> sockets in it
  activeSessions,   \* the Map activeSessions of socketHandler
  connectedUsers,   \* the keys of the Map connectedUsers of socketHandler
  call        \* the service or model call in progress: arguments and result

vars ==
  <<now, sessions, messages, metrics, procs, out, sockets, rooms,
    activeSessions, connectedUsers, call, delivered>>

(* The real-time state. *)
channel == <<sockets, rooms, activeSessions, connectedUsers>>

(* The schema paths of DebateSession the handlers read or assign.  The      *)
(* schema is strict: timeLimit, resumeTime, endReason and                   *)
(* performanceMetrics are not paths of it, so assigning them stores         *)
(* nothing and reading them yields undefined.                               *)
NoSession ==
  [status |-> "none", startTime |-> Null, endTime |-> Null, pauseTime |-> Null,
   totalPauseDuration |-> 0, user |-> 0, ai |-> 0, turnCount |-> 0,
   finalScore |-> Null]

debateSessionSchema(startTime) ==
  [status |-> "active", startTime |-> startTime, endTime |-> Null,
   pauseTime |-> Null, totalPauseDuration |-> 0, user |-> 0, ai |-> 0,
   turnCount |-> 0, finalScore |-> Null]

(* session.userId: every session of the model is started by the owner. *)
session_userId(sid) == Owner

(* session.timeLimit as the send route reads it: not a schema path. *)
timeLimit(doc) == Undefined

(* pc: position; op: the handler; sid: its session; doc, mod: the in-memory *)
(* document and its modified paths; turn: the turn number read; score: the  *)
(* overallScore of the analysis; st0: the status the handler loaded; exp:   *)
(* whether the loaded session was active with its time limit used up;       *)
(* conn: the socket the event came from, 0 for an HTTP request or an        *)
(* internal call; mid, reactions: the message a reaction handler loaded and *)
(* its in-memory reactions array; had: whether the reacting user already    *)
(* had a reaction on it; target: the status the reason of an end request    *)
(* asks for.                                                                *)
IdleProc ==
  [pc |-> "idle", op |-> "none", sid |-> 0, doc |-> NoSession, mod |-> {},
   turn |-> 0, score |-> Null, st0 |-> "none", exp |-> FALSE, conn |-> 0,
   mid |-> 0, reactions |-> <<>>, had |-> FALSE, target |-> "none"]

(* res: "ok" (a 2xx response, a resolved call, a handler that ran to its    *)
(* end) or "error" (next(error), an 'error' event to the caller's socket, a *)
(* throw); ev: the event broadcast to the session room, if any; turn: the   *)
(* turn number of the message the handler created, 0 if it created none;    *)
(* conn: the socket the event came from; tok: the token of a handshake;     *)
(* emits: every event the step emitted, each with its addressee.            *)
NoOutcome ==
  [op |-> "none", sid |-> 0, st0 |-> "none", exp |-> FALSE, res |-> "none",
   ev |-> "none", turn |-> 0, conn |-> 0, tok |-> NoToken, emits |-> {},
   had |-> FALSE, target |-> "none"]

(* An entry of activeSessions: absent, or the joiner and the status read    *)
(* when it joined.                                                          *)
NoEntry == [userId |-> 0, status |-> "none"]

NoSocket == [state |-> "none", user |-> 0]

(* No service call in progress.  A call in progress is a record with the    *)
(* function (fn), its position (pc), its arguments and, once it has         *)
(* returned or thrown, its result.                                          *)
NoCall == [fn |-> "none", pc |-> "idle"]

Init ==
  /\ now = 0
  /\ sessions = [s \in SessionIds |-> NoSession]
  /\ messages = <<>>
  /\ metrics = [s \in SessionIds |-> Null]
  /\ procs = [p \in Procs |-> IdleProc]
  /\ out = NoOutcome
  /\ sockets = [c \in Sockets |-> NoSocket]
  /\ rooms = [s \in SessionIds |-> {}]
  /\ activeSessions = [s \in SessionIds |-> NoEntry]
  /\ connectedUsers = {}
  /\ call = NoCall
  /\ delivered = [s \in SessionIds |-> 0]

----------------------------------------------------------------------------
(* Mongoose documents *)

(* A document as a handler holds it: its values and its modified paths. *)
Loaded(s) == [doc |-> s, mod |-> {}]

(* doc.path = v: the path is marked modified only when the value changes. *)
Set(D, path, v) ==
  IF D.doc[path] = v THEN D
  ELSE [doc |-> [D.doc EXCEPT ![path] = v], mod |-> D.mod \cup {path}]

(* doc.save(): $set of the modified paths on the stored document. *)
save(sid, D) ==
  [path \in DOMAIN sessions[sid] |->
     IF path \in D.mod THEN D.doc[path] ELSE sessions[sid][path]]

(* PerformanceMetrics: the six sub-scores with their weights in hundredths, *)
(* and the score paths of the schema, all required and within 0..100.       *)
weights ==
  [argumentStrength |-> 25, rebuttalQuality |-> 20, clarity |-> 15,
   evidenceUse |-> 15, logicalConsistency |-> 15, emotionalAppeal |-> 10]

SubScores == DOMAIN weights

(* new PerformanceMetrics({sessionId, userId, topicId}): no score is set. *)
performanceMetricsSchema ==
  [argumentStrength |-> Undefined, rebuttalQuality |-> Undefined,
   clarity |-> Undefined, evidenceUse |-> Undefined,
   logicalConsistency |-> Undefined, emotionalAppeal |-> Undefined,
   overallScore |-> Undefined]

RECURSIVE weightedSum(_, _)
weightedSum(doc, paths) ==
  IF paths = {} THEN 0
  ELSE LET metric == CHOOSE m \in paths : TRUE
       IN doc[metric] * weights[metric] + weightedSum(doc, paths \ {metric})

(* methods.calculateOverallScore: Math.round of the weighted sum, which is  *)
(* NaN when a sub-score is undefined.  The sum is in hundredths here, and   *)
(* Math.round rounds a half up.                                             *)
calculateOverallScore(doc) ==
  IF \E metric \in SubScores : doc[metric] = Undefined THEN NaN
  ELSE (weightedSum(doc, SubScores) + 50) \div 100

(* The validators that run before the pre-save hooks: every score path is   *)
(* required and lies within min and max.                                    *)
validMetrics(doc) ==
  \A path \in DOMAIN doc : doc[path] \in MinScore..MaxScore

(* pre('save'): the overall score is recomputed when a sub-score is         *)
(* modified.                                                                *)
pre_save(D) ==
  IF D.mod \cap SubScores # {}
  THEN [D EXCEPT !.doc.overallScore = calculateOverallScore(D.doc)]
  ELSE D

(* The result of aiService.analyzePerformance for a ledger without user     *)
(* message, that of the parse fallback, and results parsed from the reply   *)
(* of the scoring service.                                                  *)
Analysis(score, overallScore, weaknesses) ==
  [argumentStrength |-> score, logicalConsistency |-> score,
   evidenceUse |-> score, rebuttalQuality |-> score,
   overallScore |-> overallScore, weaknesses |-> weaknesses]

ZeroAnalysis == Analysis(ZeroScore, ZeroScore, "No arguments provided")

FallbackAnalysis ==
  Analysis(FallbackScore, FallbackScore, "Unable to parse detailed analysis")

ParsedAnalyses ==
  {Analysis(score, overallScore, "parsed") :
     score \in ParsedSubScores, overallScore \in ParsedScores}

(* The assignments of the analysis route to the metrics document. *)
assignAnalysis(D, analysis) ==
  Set(Set(Set(Set(Set(D, "argumentStrength", analysis.argumentStrength),
                  "logicalConsistency", analysis.logicalConsistency),
              "evidenceUse", analysis.evidenceUse),
          "rebuttalQuality", analysis.rebuttalQuality),
      "overallScore", analysis.overallScore)

(* DebateSession.methods *)
methods_endSession(D, t, finalScore) ==
  Set(Set(Set(D, "endTime", t), "status", "completed"), "finalScore", finalScore)

methods_pauseSession(D, t) ==
  IF D.doc.status = "active"
  THEN Set(Set(D, "status", "paused"), "pauseTime", t)
  ELSE D

methods_resumeSession(D, t) ==
  IF D.doc.status = "paused" /\ D.doc.pauseTime # Null
  THEN LET pauseDuration == (t - D.doc.pauseTime) \div MsPerMinute
       IN Set(Set(Set(D, "status", "active"),
                  "totalPauseDuration", D.doc.totalPauseDuration + pauseDuration),
              "pauseTime", Null)
  ELSE D

methods_incrementMessageCount(D, senderType) ==
  Set(Set(D, senderType, D.doc[senderType] + 1), "turnCount", D.doc.turnCount + 1)

(* Elapsed active time of the design, in seconds:                          *)
(* (now - startTime) - accumulated pause duration (stored in minutes).     *)
ActiveElapsed(s, t) ==
  (t - s.startTime) \div MsPerSecond - s.totalPauseDuration * 60

Expired(s, t) == s.status = "active" /\ ActiveElapsed(s, t) >= TimeLimit

(* DebateMessage.findOne({sessionId}).sort({turnNumber: -1}) and the next  *)
(* turn number computed from it.                                           *)
TurnsOf(sid) ==
  {messages[i].turnNumber : i \in {j \in 1..Len(messages) : messages[j].sessionId = sid}}

Max(S) == CHOOSE x \in S : \A y \in S : y <= x

nextTurnNumber(sid) == IF TurnsOf(sid) = {} THEN 1 ELSE Max(TurnsOf(sid)) + 1

(* The validators of DebateMessage.turnNumber: required, min 1. *)
validTurnNumber(turnNumber) == turnNumber # Undefined /\ turnNumber >= 1

DebateMessage(sid, senderType, turnNumber) ==
  [sessionId |-> sid, senderType |-> senderType, turnNumber |-> turnNumber,
   reactions |-> <<>>]

UserMessages(sid) ==
  {i \in 1..Len(messages) :
     messages[i].sessionId = sid /\ messages[i].senderType = "user"}

(* The reactions subdocument: userId and type are required; a key that is   *)
(* not a path of it, such as reaction, is dropped.                          *)
Reaction(user, type) == [userId |-> user, type |-> type]

validReactions(reactions) ==
  \A i \in 1..Len(reactions) : reactions[i].type # NoType

(* reactions.filter(reaction => reaction.userId !== userId) *)
RECURSIVE WithoutUser(_, _)
WithoutUser(reactions, user) ==
  IF reactions = <<>> THEN <<>>
  ELSE IF Head(reactions).userId = user THEN WithoutUser(Tail(reactions), user)
       ELSE <<Head(reactions)>> \o WithoutUser(Tail(reactions), user)

(* A variant of methods_addReaction that pushes without removing the       *)
(* reaction the user already has; C33 must tell it from the filter.        *)
methods_addReaction_pushing(reactions, user, type) ==
  Append(reactions, Reaction(user, type))

(* DebateMessage.methods.addReaction up to its save *)
methods_addReaction(reactions, user, type) ==
  Append(WithoutUser(reactions, user), Reaction(user, type))

(* reactions.find(r => r.userId === userId) of the react route *)
existingReaction(reactions, user) ==
  \E i \in 1..Len(reactions) : reactions[i].userId = user

----------------------------------------------------------------------------
(* Emitting events *)

(* socket.emit(ev): to the socket the event came from *)
socket_emit(c, ev) == [ev |-> ev, to |-> "socket", id |-> c]

(* io.to(`session:<sid>`).emit(ev): to every socket in the room *)
io_to_emit(sid, ev) == [ev |-> ev, to |-> "room", id |-> sid]

(* socket.to(`session:<sid>`).emit(ev): to the room but the sender *)
socket_to_emit(sid, ev) == [ev |-> ev, to |-> "others", id |-> sid]

(* A variant of Emitted that sends the 'error' event to the session room;  *)
(* C20 must tell it from the handlers' socket.emit.                         *)
Emitted_to_room(c, sid, res, ev) ==
  (IF res = "error" /\ c # 0 THEN {io_to_emit(sid, "error")} ELSE {})
    \cup (IF ev # "none" THEN {io_to_emit(sid, ev)} ELSE {})

(* What a handler that ends with res and the broadcast ev has emitted: the  *)
(* 'error' event of its error paths goes through socket.emit.               *)
Emitted(c, sid, res, ev) ==
  (IF res = "error" /\ c # 0 THEN {socket_emit(c, "error")} ELSE {})
    \cup (IF ev # "none" THEN {io_to_emit(sid, ev)} ELSE {})

----------------------------------------------------------------------------
(* Handler bookkeeping *)

(* A response or event is handed to the transport before the event loop    *)
(* runs the next handler segment.                                          *)
Flushed == out = NoOutcome

Free(p) == procs[p].pc = "idle" /\ Flushed
At(p, pc) == procs[p].pc = pc /\ Flushed

(* The handlers of a socket are registered in its connection event and      *)
(* removed when it closes.                                                  *)
Listening(c) == sockets[c].state = "connected"

Appending == {p \in Procs : procs[p].pc \in {"send_find", "send_create", "ai_find", "ai_create"}}
CanAppend == Len(messages) + Cardinality(Appending) < MaxMsgs

Starting == {p \in Procs : procs[p].pc = "start_save"}
Created == {s \in SessionIds : sessions[s].status # "none"}
Ended == {s \in SessionIds : sessions[s].status \in Terminal}

(* A step that reports nothing. *)
Silent == out' = NoOutcome

(* The in-memory document with only the paths the rest of the handler      *)
(* reads or saves; the others are never looked at again.                   *)
Held(D, paths) ==
  [path \in DOMAIN D.doc |->
     IF path \in D.mod \cup paths THEN D.doc[path] ELSE NoSession[path]]

(* The handler p goes on at pc with the document D. *)
Goto(p, pc, op, sid, D) ==
  procs' = [procs EXCEPT ![p] =
              [@ EXCEPT !.pc = pc, !.op = op, !.sid = sid, !.doc = D.doc,
                        !.mod = D.mod]]

(* The first segment of the handler of an event of socket c (0: an HTTP     *)
(* request, an internal call): it has loaded the stored document s.         *)
EnterWith(c, p, pc, op, sid, s, D, paths, target) ==
  procs' = [procs EXCEPT ![p] =
              [IdleProc EXCEPT !.pc = pc, !.op = op, !.sid = sid,
                               !.doc = Held(D, paths), !.mod = D.mod,
                               !.st0 = s.status, !.exp = Expired(s, now),
                               !.conn = c, !.target = target]]

EnterOn(c, p, pc, op, sid, s, D, paths) ==
  EnterWith(c, p, pc, op, sid, s, D, paths, "none")

Enter(p, pc, op, sid, s, D, paths) == EnterOn(0, p, pc, op, sid, s, D, paths)

(* The handler p ends with the outcome res and the broadcast ev. *)
Finish(p, res, ev) ==
  /\ procs' = [procs EXCEPT ![p] = IdleProc]
  /\ out' = [NoOutcome EXCEPT
               !.op = procs[p].op, !.sid = procs[p].sid, !.st0 = procs[p].st0,
               !.exp = procs[p].exp, !.res = res, !.ev = ev,
               !.turn = procs[p].turn, !.conn = procs[p].conn,
               !.had = procs[p].had, !.target = procs[p].target,
               !.emits = Emitted(procs[p].conn, procs[p].sid, res, ev)]

(* A handler that ends in its first segment with an error. *)
RejectOn(c, p, op, sid, s) ==
  /\ procs' = procs
  /\ out' = [NoOutcome EXCEPT
               !.op = op, !.sid = sid, !.st0 = s.status,
               !.exp = Expired(s, now), !.res = "error", !.conn = c,
               !.emits = Emitted(c, sid, "error", "none")]

Reject(p, op, sid, s) == RejectOn(0, p, op, sid, s)

Flush ==
  /\ ~Flushed
  /\ out' = NoOutcome
  /\ UNCHANGED <<call, delivered, now, sessions, messages, metrics, procs, channel>>

(* Ten minutes pass.  A handler takes far less: the clock advances between  *)
(* handler invocations.                                                    *)
Tick ==
  /\ Flushed
  /\ \A p \in Procs : procs[p].pc = "idle"
  /\ now < MaxTime * TickMs
  /\ now' = now + TickMs
  /\ Silent
  /\ UNCHANGED <<call, delivered, sessions, messages, metrics, procs, channel>>

----------------------------------------------------------------------------
(* Real-time events (socketHandler.js) *)

(* A variant of the handshake that does not look at user.isActive; C17     *)
(* must tell it from the middleware.                                        *)
connection_of_any_user(c, token) ==
  /\ Flushed
  /\ sockets[c].state = "none"
  /\ LET refused ==
           /\ out' = [NoOutcome EXCEPT !.op = "connection", !.conn = c,
                                       !.tok = token, !.res = "error"]
           /\ UNCHANGED <<sockets, connectedUsers>>
     IN IF token.kind = "missing" THEN refused
        ELSE IF token.kind # "valid" THEN refused
        ELSE IF token.id \notin DOMAIN User THEN refused
        ELSE /\ sockets' = [sockets EXCEPT ![c] =
                              [state |-> "connected", user |-> token.id]]
             /\ connectedUsers' = connectedUsers \cup {c}
             /\ out' = [NoOutcome EXCEPT !.op = "connection", !.conn = c,
                                         !.tok = token, !.res = "ok"]
  /\ UNCHANGED <<call, delivered, now, sessions, messages, metrics, procs, rooms, activeSessions>>

(* io.use and the connection event: the handshake is refused unless its     *)
(* token verifies and decodes to the id of a user that exists and is        *)
(* active; the connection event then stores the socket in connectedUsers.   *)
connection(c, token) ==
  /\ Flushed
  /\ sockets[c].state = "none"
  /\ LET refused ==
           /\ out' = [NoOutcome EXCEPT !.op = "connection", !.conn = c,
                                       !.tok = token, !.res = "error"]
           /\ UNCHANGED <<sockets, connectedUsers>>
     IN IF token.kind = "missing" THEN refused
        ELSE IF token.kind # "valid" THEN refused
        ELSE IF token.id \notin DOMAIN User THEN refused
        ELSE IF ~User[token.id].isActive THEN refused
        ELSE /\ sockets' = [sockets EXCEPT ![c] =
                              [state |-> "connected", user |-> token.id]]
             /\ connectedUsers' = connectedUsers \cup {c}
             /\ out' = [NoOutcome EXCEPT !.op = "connection", !.conn = c,
                                         !.tok = token, !.res = "ok"]
  /\ UNCHANGED <<call, delivered, now, sessions, messages, metrics, procs, rooms, activeSessions>>

(* join-debate: the session id is required; DebateSession.findById is       *)
(* awaited                                                                  *)
join_debate_1(c, p) ==
  /\ Free(p)
  /\ Listening(c)
  /\ \E sid \in SessionIds \cup {0} :
       IF sid = 0
       THEN RejectOn(c, p, "join-debate", sid, NoSession)
       ELSE /\ procs' = [procs EXCEPT ![p] =
                          [IdleProc EXCEPT !.pc = "join_find", !.op = "join-debate",
                                           !.sid = sid, !.conn = c]]
            /\ Silent
  /\ UNCHANGED <<call, delivered, now, sessions, messages, metrics, channel>>

(* A variant of join-debate that does not compare session.userId with the  *)
(* user of the socket; C16 must tell it from the handler.                   *)
join_debate_2_of_any_user(p) ==
  /\ At(p, "join_find")
  /\ LET c == procs[p].conn
         sid == procs[p].sid
         s == sessions[sid]
     IN IF s.status = "none"
        THEN Finish(p, "error", "none") /\ UNCHANGED <<rooms, activeSessions>>
        ELSE /\ rooms' = [rooms EXCEPT ![sid] = @ \cup {c}]
             /\ activeSessions' = [activeSessions EXCEPT ![sid] =
                                     [userId |-> sockets[c].user, status |-> s.status]]
             /\ procs' = [procs EXCEPT ![p] = IdleProc]
             /\ out' = [NoOutcome EXCEPT
                          !.op = "join-debate", !.sid = sid, !.conn = c,
                          !.res = "ok",
                          !.emits = {socket_emit(c, "session-joined"),
                                     socket_to_emit(sid, "user-joined")}]
  /\ UNCHANGED <<call, delivered, now, sessions, messages, metrics, sockets, connectedUsers>>

(* join-debate: the session is checked to exist and to be the user's; the   *)
(* socket joins the room, the registry entry is set, the socket is told     *)
(* session-joined and the others in the room user-joined.  socket.join on   *)
(* a socket that has closed meanwhile still adds its id to the room.        *)
join_debate_2(p) ==
  /\ At(p, "join_find")
  /\ LET c == procs[p].conn
         sid == procs[p].sid
         s == sessions[sid]
     IN IF s.status = "none" \/ session_userId(sid) # sockets[c].user
        THEN Finish(p, "error", "none") /\ UNCHANGED <<rooms, activeSessions>>
        ELSE /\ rooms' = [rooms EXCEPT ![sid] = @ \cup {c}]
             /\ activeSessions' = [activeSessions EXCEPT ![sid] =
                                     [userId |-> sockets[c].user, status |-> s.status]]
             /\ procs' = [procs EXCEPT ![p] = IdleProc]
             /\ out' = [NoOutcome EXCEPT
                          !.op = "join-debate", !.sid = sid, !.conn = c,
                          !.res = "ok",
                          !.emits = {socket_emit(c, "session-joined"),
                                     socket_to_emit(sid, "user-joined")}]
  /\ UNCHANGED <<call, delivered, now, sessions, messages, metrics, sockets, connectedUsers>>

(* leave-debate: no await and no check; with a session id the socket        *)
(* leaves the room, the registry entry of the session is deleted and the    *)
(* others in the room are told user-left.                                   *)
leave_debate(c) ==
  /\ Flushed
  /\ Listening(c)
  /\ \E sid \in SessionIds \cup {0} :
       IF sid = 0
       THEN /\ out' = [NoOutcome EXCEPT !.op = "leave-debate", !.conn = c,
                                        !.res = "ok"]
            /\ UNCHANGED <<rooms, activeSessions>>
       ELSE /\ rooms' = [rooms EXCEPT ![sid] = @ \ {c}]
            /\ activeSessions' = [activeSessions EXCEPT ![sid] = NoEntry]
            /\ out' = [NoOutcome EXCEPT
                         !.op = "leave-debate", !.sid = sid, !.conn = c,
                         !.res = "ok",
                         !.emits = {socket_to_emit(sid, "user-left")}]
  /\ UNCHANGED <<call, delivered, now, sessions, messages, metrics, procs, sockets, connectedUsers>>

(* typing: with a session id the others in the room are told user-typing *)
typing(c) ==
  /\ Flushed
  /\ Listening(c)
  /\ \E sid \in SessionIds \cup {0} :
       out' = [NoOutcome EXCEPT
                 !.op = "typing", !.sid = sid, !.conn = c, !.res = "ok",
                 !.emits = IF sid = 0 THEN {}
                           ELSE {socket_to_emit(sid, "user-typing")}]
  /\ UNCHANGED <<call, delivered, now, sessions, messages, metrics, procs, channel>>

(* The registry entries the disconnect handler deletes and announces:       *)
(* those recorded for the user of the socket.                               *)
EntriesOf(user) ==
  {sid \in SessionIds :
     activeSessions[sid] # NoEntry /\ activeSessions[sid].userId = user}

(* disconnect: socket.io has taken the socket out of its rooms; the         *)
(* handler deletes it from connectedUsers, deletes every registry entry of  *)
(* its user and tells each of these rooms user-disconnected.                *)
disconnect(c) ==
  /\ Flushed
  /\ Listening(c)
  /\ sockets' = [sockets EXCEPT ![c].state = "closed"]
  /\ rooms' = [sid \in SessionIds |-> rooms[sid] \ {c}]
  /\ connectedUsers' = connectedUsers \ {c}
  /\ activeSessions' =
       [sid \in SessionIds |->
          IF sid \in EntriesOf(sockets[c].user) THEN NoEntry
          ELSE activeSessions[sid]]
  /\ out' = [NoOutcome EXCEPT
               !.op = "disconnect", !.conn = c, !.res = "ok",
               !.emits = {io_to_emit(sid, "user-disconnected") :
                            sid \in EntriesOf(sockets[c].user)}]
  /\ UNCHANGED <<call, delivered, now, sessions, messages, metrics, procs>>

(* The handlers below answer 'Access denied' unless the session exists and  *)
(* is the user's.                                                           *)
Denied(c, sid) ==
  sessions[sid].status = "none" \/ session_userId(sid) # sockets[c].user

(* send-message: load the session, check it is the user's and active *)
on_send_message_1(p) ==
  /\ Free(p) /\ CanAppend
  /\ \E c \in Sockets, sid \in SessionIds :
       LET s == sessions[sid] IN
       /\ Listening(c)
       /\ IF Denied(c, sid) \/ s.status # "active"
          THEN RejectOn(c, p, "send-message", sid, s)
          ELSE /\ EnterOn(c, p, "send_find", "send-message", sid, s, Loaded(s),
                          {"user", "turnCount"})
               /\ Silent
  /\ UNCHANGED <<call, delivered, now, sessions, messages, metrics, channel>>

(* send-message: read the last message, compute the turn number *)
on_send_message_2(p) ==
  /\ At(p, "send_find")
  /\ procs' = [procs EXCEPT ![p].pc = "send_create",
                            ![p].turn = nextTurnNumber(procs[p].sid)]
  /\ Silent
  /\ UNCHANGED <<call, delivered, now, sessions, messages, metrics, channel>>

(* send-message: DebateMessage.create *)
on_send_message_3(p) ==
  /\ At(p, "send_create")
  /\ validTurnNumber(procs[p].turn)
  /\ messages' = Append(messages, DebateMessage(procs[p].sid, "user", procs[p].turn))
  /\ procs' = [procs EXCEPT ![p].pc = "send_count"]
  /\ Silent
  /\ UNCHANGED <<call, delivered, now, sessions, metrics, channel>>

(* send-message: session.incrementMessageCount('user'), then the broadcast. *)
(* incrementMessageCount calls save() twice in a row on one document: the   *)
(* first save stores the counters; the second resolves or is rejected as a  *)
(* parallel save, depending on the Mongoose release, and a rejection sends  *)
(* the handler to its catch block before the broadcast.                     *)
on_send_message_4(p) ==
  /\ At(p, "send_count")
  /\ LET D == methods_incrementMessageCount(
                [doc |-> procs[p].doc, mod |-> procs[p].mod], "user")
     IN sessions' = [sessions EXCEPT ![procs[p].sid] = save(procs[p].sid, D)]
  /\ \E saved \in BOOLEAN :
       IF saved
       THEN /\ Finish(p, "ok", "new-message")
            /\ delivered' = [delivered EXCEPT ![procs[p].sid] = procs[p].turn]
       ELSE Finish(p, "error", "none") /\ UNCHANGED delivered
  /\ UNCHANGED <<call, now, messages, metrics, channel>>

(* pause-session: load, session.pauseSession() up to its save *)
on_pause_session_1(p) ==
  /\ Free(p)
  /\ \E c \in Sockets, sid \in SessionIds :
       LET s == sessions[sid] IN
       /\ Listening(c)
       /\ IF Denied(c, sid)
          THEN RejectOn(c, p, "pause-session", sid, s)
          ELSE /\ EnterOn(c, p, "spause_save", "pause-session", sid, s,
                          methods_pauseSession(Loaded(s), now), {})
               /\ Silent
  /\ UNCHANGED <<call, delivered, now, sessions, messages, metrics, channel>>

(* pause-session: the save, then the broadcast *)
on_pause_session_2(p) ==
  /\ At(p, "spause_save")
  /\ sessions' = [sessions EXCEPT ![procs[p].sid] =
                    save(procs[p].sid, [doc |-> procs[p].doc, mod |-> procs[p].mod])]
  /\ Finish(p, "ok", "session-paused")
  /\ UNCHANGED <<call, delivered, now, messages, metrics, channel>>

(* resume-session: load, session.resumeSession() up to its save *)
on_resume_session_1(p) ==
  /\ Free(p)
  /\ \E c \in Sockets, sid \in SessionIds :
       LET s == sessions[sid] IN
       /\ Listening(c)
       /\ IF Denied(c, sid)
          THEN RejectOn(c, p, "resume-session", sid, s)
          ELSE /\ EnterOn(c, p, "sresume_save", "resume-session", sid, s,
                          methods_resumeSession(Loaded(s), now), {})
               /\ Silent
  /\ UNCHANGED <<call, delivered, now, sessions, messages, metrics, channel>>

(* resume-session: the save, then the broadcast *)
on_resume_session_2(p) ==
  /\ At(p, "sresume_save")
  /\ sessions' = [sessions EXCEPT ![procs[p].sid] =
                    save(procs[p].sid, [doc |-> procs[p].doc, mod |-> procs[p].mod])]
  /\ Finish(p, "ok", "session-resumed")
  /\ UNCHANGED <<call, delivered, now, messages, metrics, channel>>

(* end-session: load, session.endSession() with no arguments up to its save *)
on_end_session_1(p) ==
  /\ Free(p)
  /\ \E c \in Sockets, sid \in SessionIds :
       LET s == sessions[sid] IN
       /\ Listening(c)
       /\ IF Denied(c, sid)
          THEN RejectOn(c, p, "end-session", sid, s)
          ELSE /\ EnterOn(c, p, "send_save", "end-session", sid, s,
                          methods_endSession(Loaded(s), now, Null), {})
               /\ Silent
  /\ UNCHANGED <<call, delivered, now, sessions, messages, metrics, channel>>

(* end-session: the save, then the broadcast and activeSessions.delete *)
on_end_session_2(p) ==
  /\ At(p, "send_save")
  /\ sessions' = [sessions EXCEPT ![procs[p].sid] =
                    save(procs[p].sid, [doc |-> procs[p].doc, mod |-> procs[p].mod])]
  /\ activeSessions' = [activeSessions EXCEPT ![procs[p].sid] = NoEntry]
  /\ Finish(p, "ok", "session-ended")
  /\ UNCHANGED <<call, delivered, now, messages, metrics, sockets, rooms, connectedUsers>>

----------------------------------------------------------------------------
(* utilities.sendAIMessage (socketHandler.js), as its callers invoke it *)

(* load the session; no check of its status *)
sendAIMessage_1(p) ==
  /\ Free(p) /\ CanAppend
  /\ \E sid \in SessionIds :
       LET s == sessions[sid] IN
       IF s.status = "none"
       THEN Reject(p, "sendAIMessage", sid, s)
       ELSE /\ Enter(p, "ai_find", "sendAIMessage", sid, s, Loaded(s),
                     {"ai", "turnCount"})
            /\ Silent
  /\ UNCHANGED <<call, delivered, now, sessions, messages, metrics, channel>>

sendAIMessage_2(p) ==
  /\ At(p, "ai_find")
  /\ procs' = [procs EXCEPT ![p].pc = "ai_create",
                            ![p].turn = nextTurnNumber(procs[p].sid)]
  /\ Silent
  /\ UNCHANGED <<call, delivered, now, sessions, messages, metrics, channel>>

sendAIMessage_3(p) ==
  /\ At(p, "ai_create")
  /\ validTurnNumber(procs[p].turn)
  /\ messages' = Append(messages, DebateMessage(procs[p].sid, "ai", procs[p].turn))
  /\ procs' = [procs EXCEPT ![p].pc = "ai_count"]
  /\ Silent
  /\ UNCHANGED <<call, delivered, now, sessions, metrics, channel>>

(* session.incrementMessageCount('ai'), then the broadcast; see send-message *)
sendAIMessage_4(p) ==
  /\ At(p, "ai_count")
  /\ LET D == methods_incrementMessageCount(
                [doc |-> procs[p].doc, mod |-> procs[p].mod], "ai")
     IN sessions' = [sessions EXCEPT ![procs[p].sid] = save(procs[p].sid, D)]
  /\ \E saved \in BOOLEAN :
       IF saved
       THEN /\ Finish(p, "ok", "new-message")
            /\ delivered' = [delivered EXCEPT ![procs[p].sid] = procs[p].turn]
       ELSE Finish(p, "error", "none") /\ UNCHANGED delivered
  /\ UNCHANGED <<call, now, messages, metrics, channel>>

----------------------------------------------------------------------------
(* HTTP routes of the debate controller.  The requests are the owner's. *)

Failed == -2    \* the external scoring call threw

(* The values of the end route's reason (debates.js, request schema). *)
Reasons == {"completed", "time_up", "user_ended", "abandoned"}

(* overallScore of aiService.analyzePerformance once the external call has  *)
(* returned: the parsed value, or that of the parse fallback.               *)
AnalysisScores == {FallbackScore} \cup ParsedScores

(* POST /api/debates/start: look for an active or paused session *)
startSession_1(p) ==
  /\ Free(p)
  /\ IF \E s \in SessionIds : sessions[s].status \in Live
     THEN Reject(p, "startSession", 0, NoSession)
     ELSE /\ Cardinality(Created) + Cardinality(Starting) < MaxSessions
          /\ Cardinality(Ended) <= MaxEnded
          /\ Enter(p, "start_save", "startSession", 0, NoSession,
                   Loaded(debateSessionSchema(now)), DOMAIN NoSession)
          /\ Silent
  /\ UNCHANGED <<call, delivered, now, sessions, messages, metrics, channel>>

(* POST /api/debates/start: session.save(); the welcome message is then     *)
(* sent through a sendAIMessage that is destructured from a module which    *)
(* exports a function, so the call throws and the route answers an error.   *)
startSession_2(p) ==
  /\ At(p, "start_save")
  /\ LET sid == CHOOSE s \in SessionIds \ Created :
                  \A r \in SessionIds \ Created : s <= r
     IN sessions' = [sessions EXCEPT ![sid] = procs[p].doc]
  /\ Finish(p, "error", "none")
  /\ UNCHANGED <<call, delivered, now, messages, metrics, channel>>

(* POST /api/debates/:sessionId/messages.  The message is built without a   *)
(* turnNumber, which the schema requires.                                   *)
sendMessage(p) ==
  /\ Free(p)
  /\ \E sid \in SessionIds :
       LET s == sessions[sid]
           elapsed == (now - s.startTime) \div MsPerSecond
           message == DebateMessage(sid, "user", Undefined)
       IN IF s.status # "active"
          THEN Reject(p, "sendMessage", sid, s) /\ UNCHANGED <<sessions, messages>>
          ELSE IF timeLimit(s) # Undefined /\ timeLimit(s) # 0 /\ elapsed > timeLimit(s)
          THEN /\ sessions' = [sessions EXCEPT ![sid] =
                    save(sid, Set(Set(Loaded(s), "status", "completed"),
                                  "endTime", now))]
               /\ Reject(p, "sendMessage", sid, s)
               /\ UNCHANGED messages
          ELSE IF validTurnNumber(message.turnNumber)
          THEN /\ messages' = Append(messages, message)
               /\ procs' = procs
               /\ out' = [NoOutcome EXCEPT
                            !.op = "sendMessage", !.sid = sid, !.st0 = s.status,
                            !.exp = Expired(s, now), !.res = "ok",
                            !.turn = message.turnNumber]
               /\ UNCHANGED sessions
          ELSE Reject(p, "sendMessage", sid, s) /\ UNCHANGED <<sessions, messages>>
  /\ UNCHANGED <<call, delivered, now, metrics, channel>>

(* POST /api/debates/:sessionId/pause *)
pauseSession_1(p) ==
  /\ Free(p)
  /\ \E sid \in SessionIds :
       LET s == sessions[sid] IN
       IF s.status # "active"
       THEN Reject(p, "pauseSession", sid, s)
       ELSE /\ Enter(p, "pause_save", "pauseSession", sid, s,
                     Set(Set(Loaded(s), "status", "paused"), "pauseTime", now),
                     {})
            /\ Silent
  /\ UNCHANGED <<call, delivered, now, sessions, messages, metrics, channel>>

pauseSession_2(p) ==
  /\ At(p, "pause_save")
  /\ sessions' = [sessions EXCEPT ![procs[p].sid] =
                    save(procs[p].sid, [doc |-> procs[p].doc, mod |-> procs[p].mod])]
  /\ Finish(p, "ok", "none")
  /\ UNCHANGED <<call, delivered, now, messages, metrics, channel>>

(* POST /api/debates/:sessionId/resume *)
resumeSession_1(p) ==
  /\ Free(p)
  /\ \E sid \in SessionIds :
       LET s == sessions[sid] IN
       IF s.status # "paused"
       THEN Reject(p, "resumeSession", sid, s)
       ELSE /\ Enter(p, "resume_save", "resumeSession", sid, s,
                     Set(Loaded(s), "status", "active"), {})
            /\ Silent
  /\ UNCHANGED <<call, delivered, now, sessions, messages, metrics, channel>>

resumeSession_2(p) ==
  /\ At(p, "resume_save")
  /\ sessions' = [sessions EXCEPT ![procs[p].sid] =
                    save(procs[p].sid, [doc |-> procs[p].doc, mod |-> procs[p].mod])]
  /\ Finish(p, "ok", "none")
  /\ UNCHANGED <<call, delivered, now, messages, metrics, channel>>

(* POST /api/debates/:sessionId/end: load, guard, status and endTime *)
endSession_1(p) ==
  /\ Free(p)
  /\ \E sid \in SessionIds, reason \in Reasons :
       LET s == sessions[sid]
           status == IF reason = "abandoned" THEN "abandoned" ELSE "completed"
       IN IF s.status \notin Live
          THEN Reject(p, "endSession", sid, s)
          ELSE /\ EnterWith(0, p,
                            IF status = "completed" THEN "end_find" ELSE "end_save",
                            "endSession", sid, s,
                            Set(Set(Loaded(s), "status", status), "endTime", now),
                            {"finalScore"}, status)
               /\ Silent
  /\ UNCHANGED <<call, delivered, now, sessions, messages, metrics, channel>>

(* end: the user messages are read; with none of them the analysis is the  *)
(* zero result and no external call is made                                *)
endSession_2(p) ==
  /\ At(p, "end_find")
  /\ IF UserMessages(procs[p].sid) = {}
     THEN Goto(p, "end_save", procs[p].op, procs[p].sid,
               Set([doc |-> procs[p].doc, mod |-> procs[p].mod],
                   "finalScore", ZeroScore))
     ELSE Goto(p, "end_score", procs[p].op, procs[p].sid,
               [doc |-> procs[p].doc, mod |-> procs[p].mod])
  /\ Silent
  /\ UNCHANGED <<call, delivered, now, sessions, messages, metrics, channel>>

(* end: the external scoring call returns or throws *)
endSession_3(p) ==
  /\ At(p, "end_score")
  /\ \E r \in {Failed} \cup AnalysisScores :
       IF r = Failed
       THEN Finish(p, "error", "none")
       ELSE /\ Goto(p, "end_save", procs[p].op, procs[p].sid,
                    Set([doc |-> procs[p].doc, mod |-> procs[p].mod],
                        "finalScore", r))
            /\ Silent
  /\ UNCHANGED <<call, delivered, now, sessions, messages, metrics, channel>>

(* end: session.save() *)
endSession_4(p) ==
  /\ At(p, "end_save")
  /\ sessions' = [sessions EXCEPT ![procs[p].sid] =
                    save(procs[p].sid, [doc |-> procs[p].doc, mod |-> procs[p].mod])]
  /\ Finish(p, "ok", "none")
  /\ UNCHANGED <<call, delivered, now, messages, metrics, channel>>

----------------------------------------------------------------------------
(* POST /api/ai/analyze (aiController.analyzePerformance) *)

analyzePerformance_1(p) ==
  /\ Free(p)
  /\ \E sid \in SessionIds :
       LET s == sessions[sid] IN
       IF s.status # "completed"
       THEN Reject(p, "analyzePerformance", sid, s)
       ELSE /\ Enter(p, "an_find", "analyzePerformance", sid, s, Loaded(s),
                     {"finalScore"})
            /\ Silent
  /\ UNCHANGED <<call, delivered, now, sessions, messages, metrics, channel>>

analyzePerformance_2(p) ==
  /\ At(p, "an_find")
  /\ IF UserMessages(procs[p].sid) = {}
     THEN procs' = [procs EXCEPT ![p].pc = "an_metrics", ![p].score = ZeroScore]
     ELSE procs' = [procs EXCEPT ![p].pc = "an_score"]
  /\ Silent
  /\ UNCHANGED <<call, delivered, now, sessions, messages, metrics, channel>>

analyzePerformance_3(p) ==
  /\ At(p, "an_score")
  /\ \E r \in {Failed} \cup AnalysisScores :
       IF r = Failed
       THEN Finish(p, "error", "none")
       ELSE /\ procs' = [procs EXCEPT ![p].pc = "an_metrics", ![p].score = r]
            /\ Silent
  /\ UNCHANGED <<call, delivered, now, sessions, messages, metrics, channel>>

(* PerformanceMetrics.findOne, or a new document; the four sub-scores and  *)
(* the overallScore of the analysis are assigned and the document is saved. *)
(* A new document has neither clarity nor emotionalAppeal, which are        *)
(* required: save() rejects before the pre-save hook and the route answers  *)
(* the error, without reaching the update of the session.                   *)
analyzePerformance_4(p) ==
  /\ At(p, "an_metrics")
  /\ \E analysis \in {ZeroAnalysis, FallbackAnalysis} \cup ParsedAnalyses :
       /\ analysis.overallScore = procs[p].score
       /\ LET sid == procs[p].sid
              found == metrics[sid]
              D == assignAnalysis(
                     IF found = Null
                     THEN [doc |-> performanceMetricsSchema, mod |-> {}]
                     ELSE Loaded(found),
                     analysis)
          IN IF validMetrics(D.doc)
             THEN /\ metrics' = [metrics EXCEPT ![sid] = pre_save(D).doc]
                  /\ procs' = [procs EXCEPT ![p].pc = "an_save"]
                  /\ Silent
             ELSE /\ Finish(p, "error", "none")
                  /\ UNCHANGED metrics
  /\ UNCHANGED <<call, delivered, now, sessions, messages, channel>>

(* session.finalScore = analysis.overallScore; session.save(): the step    *)
(* after a metrics.save() that resolved.                                    *)
analyzePerformance_5(p) ==
  /\ At(p, "an_save")
  /\ sessions' = [sessions EXCEPT ![procs[p].sid] =
                    save(procs[p].sid,
                         Set([doc |-> procs[p].doc, mod |-> procs[p].mod],
                             "finalScore", procs[p].score))]
  /\ Finish(p, "ok", "none")
  /\ UNCHANGED <<call, delivered, now, messages, metrics, channel>>

----------------------------------------------------------------------------
(* POST /api/ai/respond (aiController.getResponse) *)

(* load the session, check it is active; the recent messages are read *)
getResponse_1(p) ==
  /\ Free(p)
  /\ \E sid \in SessionIds :
       LET s == sessions[sid] IN
       IF s.status # "active"
       THEN Reject(p, "getResponse", sid, s)
       ELSE /\ Enter(p, "resp_generate", "getResponse", sid, s, Loaded(s), {})
            /\ Silent
  /\ UNCHANGED <<call, delivered, now, sessions, messages, metrics, channel>>

(* aiService.generateResponse returns or throws; the AI message is built    *)
(* without a turnNumber and saved                                           *)
getResponse_2(p) ==
  /\ At(p, "resp_generate")
  /\ \E generated \in BOOLEAN :
       LET message == DebateMessage(procs[p].sid, "ai", Undefined)
       IN IF generated /\ validTurnNumber(message.turnNumber)
          THEN /\ Len(messages) < MaxMsgs
               /\ messages' = Append(messages, message)
               /\ Finish(p, "ok", "none")
          ELSE /\ Finish(p, "error", "none")
               /\ UNCHANGED messages
  /\ UNCHANGED <<call, delivered, now, sessions, metrics, channel>>

----------------------------------------------------------------------------
(* Reactions *)

(* POST /api/debates/:sessionId/messages/:messageId/react: the session is   *)
(* loaded and checked to exist                                              *)
addReaction_1(p) ==
  /\ Free(p)
  /\ \E sid \in SessionIds, mid \in 1..MaxMsgs :
       LET s == sessions[sid] IN
       IF s.status = "none"
       THEN Reject(p, "addReaction", sid, s)
       ELSE /\ procs' = [procs EXCEPT ![p] =
                          [IdleProc EXCEPT !.pc = "react_find", !.op = "addReaction",
                                           !.sid = sid, !.mid = mid]]
            /\ Silent
  /\ UNCHANGED <<call, delivered, now, sessions, messages, metrics, channel>>

(* react: the message is loaded and checked to be of the session; a         *)
(* reaction of the user on it is a conflict; otherwise a subdocument with   *)
(* userId, reaction and timestamp is pushed: it has no type                 *)
addReaction_2(p) ==
  /\ At(p, "react_find")
  /\ LET mid == procs[p].mid IN
     IF mid > Len(messages)
     THEN Finish(p, "error", "none")
     ELSE IF messages[mid].sessionId # procs[p].sid
     THEN Finish(p, "error", "none")
     ELSE IF existingReaction(messages[mid].reactions, Owner)
     THEN /\ procs' = [procs EXCEPT ![p] = IdleProc]
          /\ out' = [NoOutcome EXCEPT !.op = "addReaction", !.sid = procs[p].sid,
                                      !.res = "conflict", !.had = TRUE]
     ELSE /\ procs' = [procs EXCEPT ![p].pc = "react_save",
                                    ![p].reactions = <<Reaction(Owner, NoType)>>]
          /\ Silent
  /\ UNCHANGED <<call, delivered, now, sessions, messages, metrics, channel>>

(* react: message.save() validates the document and pushes the new          *)
(* subdocument onto the stored array                                        *)
addReaction_3(p) ==
  /\ At(p, "react_save")
  /\ IF validReactions(procs[p].reactions)
     THEN /\ messages' = [messages EXCEPT ![procs[p].mid].reactions =
                            @ \o procs[p].reactions]
          /\ Finish(p, "ok", "none")
     ELSE /\ Finish(p, "error", "none")
          /\ UNCHANGED messages
  /\ UNCHANGED <<call, delivered, now, sessions, metrics, channel>>

(* message.addReaction(userId, type) on a message just loaded, up to its    *)
(* save: the reactions array is assigned, so the save sets the whole array  *)
methods_addReaction_1(p) ==
  /\ Free(p)
  /\ \E mid \in 1..Len(messages), user \in Reactors, type \in ReactionTypes :
       procs' = [procs EXCEPT ![p] =
                   [IdleProc EXCEPT
                      !.pc = "method_react_save", !.op = "message.addReaction",
                      !.sid = messages[mid].sessionId, !.mid = mid,
                      !.had = existingReaction(messages[mid].reactions, user),
                      !.reactions =
                         methods_addReaction(messages[mid].reactions, user, type)]]
  /\ Silent
  /\ UNCHANGED <<call, delivered, now, sessions, messages, metrics, channel>>

(* A variant of methods_addReaction_2 whose save replaces the document:    *)
(* the message is removed and inserted anew with its reactions; C31 must   *)
(* tell it from the update of the reactions path.                          *)
methods_addReaction_2_reinserting(p) ==
  /\ At(p, "method_react_save")
  /\ LET mid == procs[p].mid
         kept == [i \in 1..(Len(messages) - 1) |->
                    IF i < mid THEN messages[i] ELSE messages[i + 1]]
     IN messages' = Append(kept, [messages[mid] EXCEPT
                                    !.reactions = procs[p].reactions])
  /\ Finish(p, "ok", "none")
  /\ UNCHANGED <<call, delivered, now, sessions, metrics, channel>>

methods_addReaction_2(p) ==
  /\ At(p, "method_react_save")
  /\ IF validReactions(procs[p].reactions)
     THEN /\ messages' = [messages EXCEPT ![procs[p].mid].reactions =
                            procs[p].reactions]
          /\ Finish(p, "ok", "none")
     ELSE /\ Finish(p, "error", "none")
          /\ UNCHANGED messages
  /\ UNCHANGED <<call, delivered, now, sessions, metrics, channel>>

(* message.removeReaction(userId) on a message just loaded, up to its      *)
(* save: the filtered reactions array is assigned                          *)
methods_removeReaction_1(p) ==
  /\ Free(p)
  /\ \E mid \in 1..Len(messages), user \in Reactors :
       procs' = [procs EXCEPT ![p] =
                   [IdleProc EXCEPT
                      !.pc = "method_unreact_save", !.op = "message.removeReaction",
                      !.sid = messages[mid].sessionId, !.mid = mid,
                      !.had = existingReaction(messages[mid].reactions, user),
                      !.reactions = WithoutUser(messages[mid].reactions, user)]]
  /\ Silent
  /\ UNCHANGED <<call, delivered, now, sessions, messages, metrics, channel>>

methods_removeReaction_2(p) ==
  /\ At(p, "method_unreact_save")
  /\ IF validReactions(procs[p].reactions)
     THEN /\ messages' = [messages EXCEPT ![procs[p].mid].reactions =
                            procs[p].reactions]
          /\ Finish(p, "ok", "none")
     ELSE /\ Finish(p, "error", "none")
          /\ UNCHANGED messages
  /\ UNCHANGED <<call, delivered, now, sessions, metrics, channel>>

----------------------------------------------------------------------------
(* The AI service (aiService.js), called on its own *)

(* A service call can start when none is in progress. *)
Settled == call = NoCall

(* The caller takes the result of the call, or catches what it threw. *)
Return ==
  /\ call.pc \in {"returned", "threw"}
  /\ call' = NoCall
  /\ UNCHANGED <<now, sessions, messages, metrics, procs, out, channel, delivered>>

(* The ledgers handed to the analysis: the sender types of the messages. *)
SenderTypes == {"user", "ai"}
Ledgers == UNION {[1..n -> SenderTypes] : n \in 0..MaxLedger}

(* messages.filter(msg => msg.senderType === 'user') *)
userMessages(ledger) == SelectSeq(ledger, LAMBDA senderType : senderType = "user")

(* What the scoring service answers: the call throws, or it returns a text  *)
(* without a JSON object, with braces around something JSON.parse throws    *)
(* on, or with a JSON object.                                               *)
NoReply == [kind |-> "none", value |-> ZeroAnalysis]
Throws == [kind |-> "throws", value |-> ZeroAnalysis]
Replies ==
  {Throws, [kind |-> "prose", value |-> ZeroAnalysis],
   [kind |-> "malformed", value |-> ZeroAnalysis]}
    \cup {[kind |-> "object", value |-> analysis] : analysis \in ParsedAnalyses}

(* text.match(/\{[\s\S]*\}/) *)
jsonMatch(text) == text.kind \in {"malformed", "object"}

(* parseAnalysisResponse: the parsed object, or the fallback when there is  *)
(* no match or JSON.parse throws.                                           *)
parseAnalysisResponse(text) ==
  IF jsonMatch(text) /\ text.kind = "object" THEN text.value
  ELSE FallbackAnalysis

(* A variant of aiService_analyzePerformance_1 that returns the zero        *)
(* analysis for an empty ledger only; C24 must tell it from the filter on   *)
(* the user messages.                                                       *)
aiService_analyzePerformance_1_if_empty ==
  /\ Settled /\ Flushed
  /\ \E ledger \in Ledgers :
       call' = IF Len(ledger) = 0
               THEN [fn |-> "analyzePerformance", pc |-> "returned",
                     messages |-> ledger, calls |-> 0, reply |-> NoReply,
                     result |-> ZeroAnalysis]
               ELSE [fn |-> "analyzePerformance", pc |-> "scoring",
                     messages |-> ledger, calls |-> 1, reply |-> NoReply,
                     result |-> ZeroAnalysis]
  /\ UNCHANGED <<now, sessions, messages, metrics, procs, out, channel, delivered>>

(* aiService.analyzePerformance up to the call of the scoring service: a    *)
(* ledger without user message is answered at once.                         *)
aiService_analyzePerformance_1 ==
  /\ Settled /\ Flushed
  /\ \E ledger \in Ledgers :
       call' = IF Len(userMessages(ledger)) = 0
               THEN [fn |-> "analyzePerformance", pc |-> "returned",
                     messages |-> ledger, calls |-> 0, reply |-> NoReply,
                     result |-> ZeroAnalysis]
               ELSE [fn |-> "analyzePerformance", pc |-> "scoring",
                     messages |-> ledger, calls |-> 1, reply |-> NoReply,
                     result |-> ZeroAnalysis]
  /\ UNCHANGED <<now, sessions, messages, metrics, procs, out, channel, delivered>>

(* the scoring call throws, and analyzePerformance throws 'Failed to        *)
(* analyze performance', or it returns a text, which is parsed              *)
aiService_analyzePerformance_2 ==
  /\ call.fn = "analyzePerformance" /\ call.pc = "scoring"
  /\ \E reply \in Replies :
       call' = IF reply = Throws
               THEN [call EXCEPT !.pc = "threw", !.reply = reply]
               ELSE [call EXCEPT !.pc = "returned", !.reply = reply,
                                 !.result = parseAnalysisResponse(reply)]
  /\ UNCHANGED <<now, sessions, messages, metrics, procs, out, channel, delivered>>

(* session.chosenSide: the enum of the schema. *)
ChosenSides == {"pro", "con"}

(* const aiSide = chosenSide === 'for' ? 'against' : 'for' *)
aiSideOf(chosenSide) == IF chosenSide = "for" THEN "against" ELSE "for"

(* What the generation service answers to an auxiliary call: the call       *)
(* throws, or it returns lines, some of them blank.                         *)
Lines == {"", "point"}
Completions ==
  {[ok |-> FALSE, lines |-> <<>>]}
    \cup {[ok |-> TRUE, lines |-> lines] :
            lines \in UNION {[1..n -> Lines] : n \in 0..MaxLines}}

ReasoningFallback == "Response generated based on debate context and topic information."

SuggestionsFallback ==
  <<"Continue the debate with your next argument.",
    "Consider addressing the counter-points raised.">>

(* generateReasoning: the content of the completion, or the fallback string *)
(* when the call throws.                                                    *)
generateReasoning(completion) ==
  IF completion.ok THEN "generated" ELSE ReasoningFallback

(* slice(0, n) *)
slice(s, n) == SubSeq(s, 1, IF Len(s) < n THEN Len(s) ELSE n)

(* A variant of generateSuggestions that returns every line; C27 must tell  *)
(* it from the slice to three.                                              *)
generateSuggestions_unsliced(completion) ==
  IF completion.ok
  THEN SelectSeq(completion.lines, LAMBDA s : s # "")
  ELSE SuggestionsFallback

(* generateSuggestions: the non-blank lines of the completion, three at     *)
(* most, or the fallback list when the call throws.                         *)
generateSuggestions(completion) ==
  IF completion.ok
  THEN slice(SelectSeq(completion.lines, LAMBDA s : s # ""), MaxSuggestions)
  ELSE SuggestionsFallback

NoContent == "none"

(* A variant of generateResponse_1 that answers a failed generation with a  *)
(* canned content; C26 must tell it from the rethrow.                       *)
generateResponse_1_canned ==
  /\ Settled /\ Flushed
  /\ \E chosenSide \in ChosenSides, ok \in BOOLEAN :
       call' = [fn |-> "generateResponse", pc |-> "reasoning",
                chosenSide |-> chosenSide, aiSide |-> aiSideOf(chosenSide),
                primary |-> ok, content |-> IF ok THEN "primary" ELSE "canned",
                failed |-> {}, reasoning |-> NoContent, suggestions |-> <<>>]
  /\ UNCHANGED <<now, sessions, messages, metrics, procs, out, channel, delivered>>

(* aiService.generateResponse up to the primary completion: the side of     *)
(* the AI is derived and the completion is awaited; when it throws,         *)
(* generateResponse throws 'Failed to generate AI response'.                *)
generateResponse_1 ==
  /\ Settled /\ Flushed
  /\ \E chosenSide \in ChosenSides, ok \in BOOLEAN :
       call' = [fn |-> "generateResponse",
                pc |-> IF ok THEN "reasoning" ELSE "threw",
                chosenSide |-> chosenSide, aiSide |-> aiSideOf(chosenSide),
                primary |-> ok, content |-> IF ok THEN "primary" ELSE NoContent,
                failed |-> {}, reasoning |-> NoContent, suggestions |-> <<>>]
  /\ UNCHANGED <<now, sessions, messages, metrics, procs, out, channel, delivered>>

(* await generateReasoning(...) *)
generateResponse_2 ==
  /\ call.fn = "generateResponse" /\ call.pc = "reasoning"
  /\ \E ok \in BOOLEAN :
       call' = [call EXCEPT
                  !.pc = "suggestions",
                  !.failed = IF ok THEN @ ELSE @ \cup {"reasoning"},
                  !.reasoning = generateReasoning([ok |-> ok, lines |-> <<>>])]
  /\ UNCHANGED <<now, sessions, messages, metrics, procs, out, channel, delivered>>

(* await generateSuggestions(...), then the response is returned *)
generateResponse_3 ==
  /\ call.fn = "generateResponse" /\ call.pc = "suggestions"
  /\ \E completion \in Completions :
       call' = [call EXCEPT
                  !.pc = "returned",
                  !.failed = IF completion.ok THEN @ ELSE @ \cup {"suggestions"},
                  !.suggestions = generateSuggestions(completion)]
  /\ UNCHANGED <<now, sessions, messages, metrics, procs, out, channel, delivered>>

----------------------------------------------------------------------------
(* Pages of messages *)

(* The messages of a session as they are stored, in creation order: the     *)
(* timestamp is the millisecond of the creation, so it never decreases and  *)
(* two messages created in the same millisecond share it.                   *)
Stamps == 1..MaxStamp

Stored ==
  {[i \in 1..n |-> [timestamp |-> IF i = 1 THEN 1 ELSE late, turnNumber |-> i]] :
     n \in 0..MaxStored, late \in Stamps}
    \cup {[i \in 1..(MaxLimit + 1) |-> [timestamp |-> i, turnNumber |-> i]]}

(* The query parameters of the messages route: page, limit (50 when the     *)
(* client gives none) and before (none, or a timestamp).                    *)
Pages == {1, 2}
Limits == {0, 1, 2, DefaultLimit, 2 * MaxLimit}
NoCursor == 0
Cursors == {NoCursor} \cup Stamps

(* sort({path: dir}): ascending for 1, descending for -1; messages with     *)
(* equal keys stay in stored order.                                         *)
sort(s, sortOptions) ==
  LET key(k) == sortOptions.dir * s[k][sortOptions.path]
      ranked ==
        {<<1 + Cardinality({j \in 1..Len(s) :
                              key(j) < key(k) \/ (key(j) = key(k) /\ j < k)}),
           k>> : k \in 1..Len(s)}
  IN [i \in 1..Len(s) |-> s[(CHOOSE r \in ranked : r[1] = i)[2]]]

skip(s, n) == SubSeq(s, n + 1, Len(s))

(* limit(n): a limit of 0 is no limit *)
limit(s, n) == IF n = 0 THEN s ELSE slice(s, n)

reverse(s) == [i \in 1..Len(s) |-> s[Len(s) + 1 - i]]

(* GET /api/debates/:sessionId/messages of the owner of the session: the    *)
(* messages before the cursor, newest first, one page of them, reversed.    *)
(* The route runs no validation of page and limit.                          *)
getMessages ==
  /\ Settled /\ Flushed
  /\ \E stored \in Stored, page \in Pages, n \in Limits, before \in Cursors :
       LET filter == IF before # NoCursor
                     THEN SelectSeq(stored, LAMBDA m : m.timestamp < before)
                     ELSE stored
           found == limit(skip(sort(filter, [path |-> "timestamp", dir |-> -1]),
                               (page - 1) * n),
                          n)
       IN call' = [fn |-> "getMessages", pc |-> "returned", stored |-> stored,
                   page |-> page, limit |-> n, before |-> before,
                   result |-> reverse(found)]
  /\ UNCHANGED <<now, sessions, messages, metrics, procs, out, channel, delivered>>

(* The sort of DebateMessage.getSessionMessages for each sortBy. *)
SortBys == {"timestamp", "turnNumber", "newest", "oldest"}

sortOptionsOf(sortBy) ==
  CASE sortBy = "timestamp" -> [path |-> "timestamp", dir |-> 1]
    [] sortBy = "turnNumber" -> [path |-> "turnNumber", dir |-> 1]
    [] sortBy = "newest" -> [path |-> "timestamp", dir |-> -1]
    [] OTHER -> [path |-> "timestamp", dir |-> 1]

(* DebateMessage.getSessionMessages(sessionId, {limit, skip, sortBy}) *)
getSessionMessages ==
  /\ Settled /\ Flushed
  /\ \E stored \in Stored, n \in {1, DefaultLimit}, skipped \in {0, 1},
        sortBy \in SortBys :
       call' = [fn |-> "getSessionMessages", pc |-> "returned",
                stored |-> stored, skip |-> skipped, limit |-> n,
                sortBy |-> sortBy,
                result |-> limit(skip(sort(stored, sortOptionsOf(sortBy)), skipped), n)]
  /\ UNCHANGED <<now, sessions, messages, metrics, procs, out, channel, delivered>>

----------------------------------------------------------------------------
(* Specifications *)

OwnerToken == [kind |-> "valid", id |-> Owner]

(* The owner opens a connection. *)
Connect == connection(1, OwnerToken)

Start(p) == startSession_1(p) \/ startSession_2(p)

Ledger(p) ==
  \/ on_send_message_1(p) \/ on_send_message_2(p)
  \/ on_send_message_3(p) \/ on_send_message_4(p)
  \/ sendAIMessage_1(p) \/ sendAIMessage_2(p)
  \/ sendAIMessage_3(p) \/ sendAIMessage_4(p)

Lifecycle(p) ==
  \/ on_pause_session_1(p) \/ on_pause_session_2(p)
  \/ on_resume_session_1(p) \/ on_resume_session_2(p)
  \/ on_end_session_1(p) \/ on_end_session_2(p)
  \/ sendMessage(p)
  \/ pauseSession_1(p) \/ pauseSession_2(p)
  \/ resumeSession_1(p) \/ resumeSession_2(p)
  \/ endSession_1(p) \/ endSession_2(p) \/ endSession_3(p) \/ endSession_4(p)

(* The analysis route.  Its last step, analyzePerformance_5, follows a      *)
(* metrics.save() that resolved, which no run of the route reaches.        *)
Scoring(p) ==
  \/ analyzePerformance_1(p) \/ analyzePerformance_2(p)
  \/ analyzePerformance_3(p) \/ analyzePerformance_4(p)

Respond(p) == getResponse_1(p) \/ getResponse_2(p)

Reactions(p) ==
  \/ addReaction_1(p) \/ addReaction_2(p) \/ addReaction_3(p)
  \/ methods_addReaction_1(p) \/ methods_addReaction_2(p)
  \/ methods_removeReaction_1(p) \/ methods_removeReaction_2(p)

Step(p) == Start(p) \/ Ledger(p) \/ Lifecycle(p) \/ Scoring(p)

(* Every session handler, one invocation after the other, as the clock     *)
(* advances; the owner has one connection.                                 *)
Next == Flush \/ Tick \/ Connect \/ Step(1)

Spec == Init /\ [][Next]_vars

(* The session handlers interleaved at their awaits, at one instant of the *)
(* clock; the user's messages are sent one at a time.                      *)
NextSession ==
  \/ Flush
  \/ Connect
  \/ Start(1)
  \/ \E p \in Procs : Lifecycle(p) \/ Scoring(p)
  \/ on_send_message_1(1) \/ on_send_message_2(1)
  \/ on_send_message_3(1) \/ on_send_message_4(1)

SpecSession == Init /\ [][NextSession]_vars

(* The appends to the ledger interleaved at their awaits. *)
NextLedger ==
  \/ Flush
  \/ Connect
  \/ Start(1)
  \/ \E p \in Procs : Ledger(p) \/ Respond(p)

SpecLedger == Init /\ [][NextLedger]_vars

(* Start requests of the owner interleaved at their awaits, with pauses    *)
(* and resumes of the sessions they create.                                *)
NextStart ==
  \/ Flush
  \/ \E p \in Procs :
       \/ Start(p)
       \/ pauseSession_1(p) \/ pauseSession_2(p)
       \/ resumeSession_1(p) \/ resumeSession_2(p)

SpecStart == Init /\ [][NextStart]_vars

(* The calls of the AI service, one at a time, next to the respond route   *)
(* on the sessions of the owner.                                           *)
NextService ==
  \/ Flush
  \/ Start(1)
  \/ Respond(1)
  \/ aiService_analyzePerformance_1 \/ aiService_analyzePerformance_2
  \/ generateResponse_1 \/ generateResponse_2 \/ generateResponse_3
  \/ Return

SpecService == Init /\ [][NextService]_vars

(* The page queries on stored ledgers, one at a time. *)
NextPages == getMessages \/ getSessionMessages \/ Return

SpecPages == Init /\ [][NextPages]_vars

(* Reactions on the messages of a session, interleaved at their awaits. *)
NextReactions ==
  \/ Flush
  \/ Connect
  \/ Start(1)
  \/ on_send_message_1(1) \/ on_send_message_2(1)
  \/ on_send_message_3(1) \/ on_send_message_4(1)
  \/ \E p \in Procs : Reactions(p)

SpecReactions == Init /\ [][NextReactions]_vars

(* The real-time channel: connections of every kind of user, their         *)
(* subscriptions, and the events of a session over them.                   *)
NextChannel ==
  \/ Flush
  \/ Start(1)
  \/ \E c \in Sockets, token \in Tokens : connection(c, token)
  \/ \E c \in Sockets :
       \/ leave_debate(c) \/ typing(c) \/ disconnect(c)
       \/ \E p \in Procs : join_debate_1(c, p)
  \/ \E p \in Procs :
       \/ join_debate_2(p)
       \/ on_end_session_1(p) \/ on_end_session_2(p)
  \/ on_pause_session_1(1) \/ on_pause_session_2(1)
  \/ on_resume_session_1(1) \/ on_resume_session_2(1)
  \/ on_send_message_1(1) \/ on_send_message_2(1)
  \/ on_send_message_3(1) \/ on_send_message_4(1)

SpecChannel == Init /\ [][NextChannel]_vars

----------------------------------------------------------------------------
(* Properties *)

Idle == \A p \in Procs : procs[p].pc = "idle"

SendOps == {"send-message", "sendMessage"}
TransitionOps ==
  {"pause-session", "resume-session", "end-session", "send-message",
   "pauseSession", "resumeSession", "endSession", "sendMessage"}

(* C1: the turn numbers of the messages persisted for a session are exactly *)
(* 1..N, without gap or duplicate, whatever the interleaving of the appends. *)
C1_TurnNumbersAreOneToN ==
  \A sid \in SessionIds :
    LET mine == {i \in 1..Len(messages) : messages[i].sessionId = sid}
    IN /\ TurnsOf(sid) = 1..Cardinality(mine)
       /\ \A i, j \in mine : i # j => messages[i].turnNumber # messages[j].turnNumber

(* C2: once the stored status of a session is completed or abandoned, no    *)
(* step changes it.                                                         *)
C2_TerminalIsAbsorbing ==
  [][\A sid \in SessionIds :
       sessions[sid].status \in Terminal
         => sessions'[sid].status = sessions[sid].status]_vars

(* C3: a pause, resume, send or end request on a session that has ended     *)
(* reports an error to its caller and broadcasts nothing.                   *)
C3_EndedSessionRefusesRequests ==
  (out.op \in TransitionOps /\ out.st0 \in Terminal)
    => (out.res = "error" /\ out.ev = "none")

(* C4: a send on an active session whose elapsed active time has reached    *)
(* the time limit is rejected, appends no message and leaves the session    *)
(* completed.                                                               *)
C4_ExpiredSendCompletesSession ==
  (out.op \in SendOps /\ out.exp)
    => /\ out.res = "error"
       /\ out.turn = 0
       /\ sessions[out.sid].status = "completed"

(* C5: a send through the send route on an active session that was paused   *)
(* and resumed is accepted as long as the elapsed time less the accumulated *)
(* pause duration is under the time limit, also when the wall-clock time    *)
(* since the start is over it.                                              *)
C5_SendGuardSubtractsPauses ==
  (/\ out.op = "sendMessage" /\ out.st0 = "active" /\ ~out.exp
   /\ sessions[out.sid].totalPauseDuration > 0
   /\ (now - sessions[out.sid].startTime) \div MsPerSecond > TimeLimit)
    => out.res = "ok"

(* C6: in every stored session, endTime is set exactly when the status is   *)
(* completed or abandoned, whatever the interleaving of the handlers.       *)
C6_EndTimeIffTerminal ==
  \A sid \in Created :
    (sessions[sid].endTime # Null) <=> (sessions[sid].status \in Terminal)

(* C7: in every stored session, pauseTime is set exactly when the status is *)
(* paused.                                                                  *)
C7_PauseTimeIffPaused ==
  \A sid \in Created :
    (sessions[sid].pauseTime # Null) <=> (sessions[sid].status = "paused")

(* C8: the stored counters messageCount.user, messageCount.ai and turnCount *)
(* of a session never decrease.                                             *)
C8_CountersNeverDecrease ==
  [][\A sid \in SessionIds :
       /\ sessions'[sid].user >= sessions[sid].user
       /\ sessions'[sid].ai >= sessions[sid].ai
       /\ sessions'[sid].turnCount >= sessions[sid].turnCount]_vars

(* C9: a stored session carries a finalScore only if its status is          *)
(* completed.                                                               *)
C9_FinalScoreOnlyIfCompleted ==
  \A sid \in Created :
    sessions[sid].finalScore # Null => sessions[sid].status = "completed"

(* C10: every transition to completed triggers scoring: once the handlers   *)
(* have run to their end, a completed session has a finalScore.             *)
C10_CompletedSessionIsScored ==
  \A sid \in Created :
    (Idle /\ sessions[sid].status = "completed")
      => sessions[sid].finalScore # Null

(* C11: a resume of a paused session, by the resume route or by the         *)
(* resume-session event, adds the time since the pause to the accumulated   *)
(* pause duration and clears the pause timestamp.                           *)
C11_ResumeAccumulatesPause ==
  [][\A sid \in SessionIds :
       (sessions[sid].status = "paused" /\ sessions'[sid].status = "active")
         => /\ sessions'[sid].pauseTime = Null
            /\ sessions'[sid].totalPauseDuration =
                 sessions[sid].totalPauseDuration
                   + (now - sessions[sid].pauseTime) \div MsPerMinute]_vars

EndOps == {"endSession", "end-session"}

(* C12: an end request of the owner on an active or paused session          *)
(* succeeds and leaves the session abandoned when the reason is abandoned   *)
(* and completed otherwise, with endTime set, whether or not the session    *)
(* has user messages.                                                       *)
C12_EndAlwaysSucceeds ==
  (/\ out.op \in EndOps /\ out.st0 \in Live
   /\ (out.conn = 0 \/ sockets[out.conn].user = session_userId(out.sid)))
    => /\ out.res = "ok"
       /\ sessions[out.sid].status =
            (IF out.target = "abandoned" THEN "abandoned" ELSE "completed")
       /\ sessions[out.sid].endTime # Null

(* C13: once the handlers have run to their end, turnCount is the number    *)
(* of messages of the session and messageCount.user and messageCount.ai    *)
(* are the numbers of its user and AI messages.                             *)
C13_CountersMatchLedger ==
  Idle =>
    \A sid \in Created :
      LET mine(senderType) ==
            {i \in 1..Len(messages) :
               messages[i].sessionId = sid /\ messages[i].senderType = senderType}
      IN /\ sessions[sid].user = Cardinality(mine("user"))
         /\ sessions[sid].ai = Cardinality(mine("ai"))
         /\ sessions[sid].turnCount = Cardinality(mine("user") \cup mine("ai"))

ReactOps == {"addReaction", "message.addReaction"}

(* C14: adding a reaction for a user who already has one on the message,    *)
(* through the react route or the model method addReaction, reports a       *)
(* conflict and leaves the reactions of the message as they were.           *)
C14_SecondReactionIsConflict ==
  [][(out'.op \in ReactOps /\ out'.had)
       => (out'.res = "conflict" /\ messages' = messages)]_vars

(* C15: the owner never has two sessions that are active or paused at the   *)
(* same time, whatever the interleaving of the start requests.              *)
C15_OneLiveSessionPerUser ==
  Cardinality({sid \in SessionIds : sessions[sid].status \in Live}) <= 1

SocketOps ==
  {"join-debate", "leave-debate", "send-message", "typing", "pause-session",
   "resume-session", "end-session"}

ActiveUsers == {id \in DOMAIN User : User[id].isActive}

(* C16: a join-debate of a connection whose user does not own the session   *)
(* reports an error and does not put the connection in the room; the room   *)
(* of a session only ever holds connections of its owner.                   *)
C16_RoomHoldsOwnerOnly ==
  /\ \A sid \in SessionIds : \A c \in rooms[sid] :
       sockets[c].user = session_userId(sid)
  /\ (/\ out.op = "join-debate" /\ out.sid \in SessionIds
      /\ sockets[out.conn].user # session_userId(out.sid))
       => (out.res = "error" /\ out.conn \notin rooms[out.sid])

C16_JoinByOtherUserRefused ==
  /\ out.op = "join-debate" /\ out.res = "error"
  /\ out.sid \in Created
  /\ sockets[out.conn].user = Other
  /\ rooms[out.sid] # {}

(* C17: a handshake succeeds only with a token that verifies and decodes    *)
(* to an existing, active user, and is refused before the connection event  *)
(* otherwise; every real-time handler that runs or has run belongs to a     *)
(* connection that passed it.                                               *)
C17_HandlersOnlyAfterHandshake ==
  /\ \A c \in Sockets :
       sockets[c].state # "none" => sockets[c].user \in ActiveUsers
  /\ out.op = "connection"
       => /\ out.res = "ok" <=>
               (out.tok.kind = "valid" /\ out.tok.id \in ActiveUsers)
          /\ out.res = "error" => sockets[out.conn].state = "none"
  /\ out.op \in SocketOps
       => (out.conn \in Sockets /\ sockets[out.conn].user \in ActiveUsers)
  /\ \A p \in Procs :
       procs[p].op \in SocketOps
         => (procs[p].conn \in Sockets
             /\ sockets[procs[p].conn].user \in ActiveUsers)

C17_DeactivatedUserRefused ==
  /\ out.op = "connection" /\ out.res = "error"
  /\ out.tok.kind = "valid" /\ out.tok.id = Deactivated
  /\ \E c \in Sockets : Listening(c)

(* C18: a leave-debate of a connection that is not in the room of the       *)
(* session, be it a second leave or the leave of a connection that never    *)
(* joined, changes neither the rooms nor the registry.                      *)
C18_LeaveIsIdempotent ==
  [][(/\ out'.op = "leave-debate" /\ out'.sid \in SessionIds
      /\ out'.conn \notin rooms[out'.sid])
       => (rooms' = rooms /\ activeSessions' = activeSessions)]_vars

(* C19: when a connection closes it is taken out of every room it was in,   *)
(* and each of these rooms that still holds an open connection is told      *)
(* user-disconnected.                                                       *)
C19_DisconnectNotifiesRooms ==
  [][\A c \in Sockets :
       (sockets[c].state = "connected" /\ sockets'[c].state = "closed")
         => \A sid \in SessionIds :
              c \in rooms[sid]
                => /\ c \notin rooms'[sid]
                   /\ (\E d \in rooms'[sid] : sockets'[d].state = "connected")
                        => io_to_emit(sid, "user-disconnected") \in out'.emits]_vars

(* C20: an 'error' event is only ever emitted to the socket the event came  *)
(* from, never to a room, to the other sockets or to all of them.           *)
C20_ErrorsToOriginOnly ==
  \A e \in out.emits :
    e.ev = "error" => (e.to = "socket" /\ e.id = out.conn)

C20_ErrorWithOthersInRoom ==
  /\ out.op \in SocketOps /\ out.res = "error"
  /\ out.sid \in SessionIds
  /\ socket_emit(out.conn, "error") \in out.emits
  /\ rooms[out.sid] \ {out.conn} # {}

(* The messages of a session, as positions in the collection. *)
MessagesOf(sid) == {i \in 1..Len(messages) : messages[i].sessionId = sid}

(* C21: in a freshly started session the first user message is persisted   *)
(* with turnNumber 1 and senderType user, and the AI turn it triggers is    *)
(* persisted with turnNumber 2 and senderType ai: once the handlers have    *)
(* run to their end, a session whose first user message is stored holds     *)
(* the AI message of turn 2.                                                *)
C21_FirstExchangeIsUserThenAI ==
  Idle =>
    \A sid \in Created :
      UserMessages(sid) # {}
        => /\ \E i \in MessagesOf(sid) :
                /\ messages[i].senderType = "user"
                /\ messages[i].turnNumber = 1
           /\ \E j \in MessagesOf(sid) :
                /\ messages[j].senderType = "ai"
                /\ messages[j].turnNumber = 2

(* C22: every user message accepted into an active session, by the          *)
(* send-message event or by the send route, is broadcast to the room of     *)
(* the session as new-message and is followed by an AI message of the same  *)
(* session: once the handlers have run to their end, an AI message comes    *)
(* after every user message in the ledger.                                  *)
C22_UserMessageIsAnswered ==
  /\ (out.op \in SendOps /\ out.res = "ok")
       => io_to_emit(out.sid, "new-message") \in out.emits
  /\ Idle =>
       \A i \in 1..Len(messages) :
         messages[i].senderType = "user"
           => \E j \in (i + 1)..Len(messages) :
                /\ messages[j].sessionId = messages[i].sessionId
                /\ messages[j].senderType = "ai"

(* C23: the overallScore of every stored PerformanceMetrics is the rounded  *)
(* weighted sum of its six sub-scores, and the save of the analysis route   *)
(* stores the metrics of the session with the score recomputed.             *)
C23_AnalysisStoresWeightedScore ==
  [][\A p \in Procs :
       (procs[p].pc = "an_metrics" /\ procs'[p].pc # "an_metrics")
         => LET stored == metrics'[procs[p].sid]
            IN /\ stored # Null
               /\ stored.overallScore = calculateOverallScore(stored)]_vars

NeutralScore == (MinScore + MaxScore) \div 2

(* C25: once the scoring service has answered, the analysis returns a       *)
(* result whatever the text; when the text does not parse, the result is    *)
(* the neutral score 50 on every dimension with the note of the fallback.   *)
C25_ParseFailureScoresMidpoint ==
  (call.fn = "analyzePerformance"
     /\ call.reply.kind \in {"prose", "malformed", "object"})
    => /\ call.pc = "returned"
       /\ call.reply.kind # "object"
            => /\ call.result.overallScore = NeutralScore
               /\ call.result.argumentStrength = NeutralScore
               /\ call.result.logicalConsistency = NeutralScore
               /\ call.result.evidenceUse = NeutralScore
               /\ call.result.rebuttalQuality = NeutralScore
               /\ call.result.weaknesses = "Unable to parse detailed analysis"

(* C26: when the primary completion fails, generateResponse throws and      *)
(* hands no content to its caller, and a respond route that ends in an      *)
(* error appends no message and broadcasts nothing.                         *)
C26_FailedGenerationRaises ==
  [][/\ (call'.fn = "generateResponse" /\ ~call'.primary)
          => (call'.pc = "threw" /\ call'.content = NoContent)
     /\ (out'.op = "getResponse" /\ out'.res = "error")
          => /\ messages' = messages
             /\ \A e \in out'.emits : e.to = "socket"]_vars

C26_GenerationFailed ==
  /\ call.fn = "generateResponse" /\ call.pc = "threw"
  /\ ~call.primary
  /\ call.content = NoContent

(* C27: when the primary completion succeeded, generateResponse never       *)
(* throws: it returns the primary content, with the fallback reasoning or   *)
(* the fallback suggestions in place of an auxiliary call that failed, and  *)
(* with three suggestions at most.                                          *)
C27_AuxiliaryFailureDegrades ==
  (call.fn = "generateResponse" /\ call.primary)
    => /\ call.pc # "threw"
       /\ call.content = "primary"
       /\ call.pc = "returned"
            => /\ "reasoning" \in call.failed
                    => call.reasoning = ReasoningFallback
               /\ "suggestions" \in call.failed
                    => call.suggestions = SuggestionsFallback
               /\ Len(call.suggestions) <= MaxSuggestions

C27_BothAuxiliaryCallsFailed ==
  /\ call.fn = "generateResponse" /\ call.pc = "returned"
  /\ call.failed = {"reasoning", "suggestions"}

(* C28: for each chosen side, pro and con, the AI is told to argue the      *)
(* opposite side: against the topic for pro, for it for con.                *)
C28_AISideIsOpposite ==
  call.fn = "generateResponse"
    => call.aiSide = (IF call.chosenSide = "pro" THEN "against" ELSE "for")

(* C29: every page of messages returned is ordered oldest first with        *)
(* strictly increasing timestamps, whatever the page, the limit, the        *)
(* cursor and the sort option.                                              *)
C29_PagesAreOldestFirst ==
  (call.fn \in {"getMessages", "getSessionMessages"} /\ call.pc = "returned")
    => \A i, j \in 1..Len(call.result) :
         i < j => call.result[i].timestamp < call.result[j].timestamp

(* C30: a page of the messages route never holds more messages than the     *)
(* limit asked for, and never more than 100.                                *)
C30_PageIsBounded ==
  (call.fn = "getMessages" /\ call.pc = "returned")
    => /\ Len(call.result) <= call.limit
       /\ Len(call.result) <= MaxLimit

C32_AppendOnlyToActiveSession ==
  [][Len(messages') > Len(messages)
       => sessions[messages'[Len(messages')].sessionId].status = "active"]_vars

C34_BroadcastTurnsIncrease ==
  [][(out'.ev = "new-message" /\ out.ev # "new-message")
       => out'.turn > delivered[out'.sid]]_vars

(* C35: 'session-paused' is broadcast only by a request that moved the      *)
(* session from active to paused, and 'session-resumed' only by one that    *)
(* moved it from paused to active: a pause of a paused or ended session and *)
(* a resume of an active or ended session broadcast no such event.  With    *)
(* one handler at a time, the status the handler loaded is the status the   *)
(* session had when the request was served.                                 *)
C35_BroadcastOnlyOnTransition ==
  /\ out.ev = "session-paused"
       => (out.st0 = "active" /\ sessions[out.sid].status = "paused")
  /\ out.ev = "session-resumed"
       => (out.st0 = "paused" /\ sessions[out.sid].status = "active")

(* C36: only a connection of the session's owner causes an event delivered  *)
(* to the room of the session or a change of its registry entry: a typing   *)
(* or a leave-debate naming the session, sent over the connection of        *)
(* another user, reaches no connection of the room and leaves the entry of  *)
(* the session in activeSessions as it was.                                 *)
C36_OnlyOwnerActsOnRoom ==
  [][(/\ out'.op \in {"typing", "leave-debate"} /\ out.op = "none"
      /\ out'.sid \in SessionIds
      /\ sessions[out'.sid].status # "none"
      /\ sockets[out'.conn].user # session_userId(out'.sid))
       => /\ activeSessions'[out'.sid] = activeSessions[out'.sid]
          /\ \A e \in out'.emits :
               e.id = out'.sid /\ e.to \in {"room", "others"}
                 => rooms[out'.sid] \ {out'.conn} = {}]_vars

(* C37: the registry agrees with the rooms and the store: a session has an  *)
(* entry in activeSessions exactly when at least one connection is          *)
(* subscribed to its room, and the status of the entry is the persisted     *)
(* status of the session.                                                   *)
C37_RegistryIsConsistent ==
  \A sid \in SessionIds :
    /\ (activeSessions[sid] # NoEntry) <=> (rooms[sid] # {})
    /\ activeSessions[sid] # NoEntry
         => activeSessions[sid].status = sessions[sid].status

(* C38: starting a session is all-or-nothing: a start request that reports  *)
(* an error, the failure of the welcome message after the save included,    *)
(* leaves no new session persisted, so that it cannot block a later start.  *)
C38_FailedStartPersistsNothing ==
  [][(out'.op = "startSession" /\ out.op = "none" /\ out'.res = "error")
       => \A sid \in SessionIds :
            sessions[sid].status = "none" => sessions'[sid].status = "none"]_vars

PauseOps == {"pauseSession", "pause-session"}
ResumeOps == {"resumeSession", "resume-session"}

(* C39: the HTTP routes and the real-time events implement one state        *)
(* machine, that of the session methods: a pause or a resume of the owner,  *)
(* by either path, is accepted exactly when the method performs the         *)
(* transition on the stored session, and leaves persisted what the method   *)
(* writes (status, pauseTime, totalPauseDuration).                          *)
C39_RoutesAndEventsAgree ==
  [][(/\ out.op = "none" /\ out'.op \in PauseOps \cup ResumeOps
      /\ out'.sid \in SessionIds
      /\ sessions[out'.sid].status # "none"
      /\ out'.conn # 0 => ~Denied(out'.conn, out'.sid))
       => LET sid == out'.sid
              D == IF out'.op \in PauseOps
                   THEN methods_pauseSession(Loaded(sessions[sid]), now)
                   ELSE methods_resumeSession(Loaded(sessions[sid]), now)
          IN /\ (out'.res = "ok") <=> (D.mod # {})
             /\ sessions'[sid] = save(sid, D)]_vars

----------------------------------------------------------------------------
(* analyzeResponseType (aiService.js), called on its own *)

MaxWords == 2

(* A text is a sequence of words.  The words: one for each keyword, three   *)
(* of them in upper or mixed case, two holding the keyword inside a longer  *)
(* word, and one word that holds no keyword.                                *)
Words ==
  {"Question", "why?", "REBUTTAL", "counterpoint", "However", "clarify",
   "unexplained", "claim"}

Texts == UNION {[1..n -> Words] : n \in 0..MaxWords}

(* The user's messages handed over with the text. *)
UserTexts == {<<>>, <<"why?">>, <<"REBUTTAL">>}

(* String.prototype.toLowerCase, word by word *)
toLowerCase(text) ==
  [i \in DOMAIN text |->
     CASE text[i] = "Question" -> "question"
       [] text[i] = "REBUTTAL" -> "rebuttal"
       [] text[i] = "However" -> "however"
       [] OTHER -> text[i]]

(* String.prototype.includes: the keyword is a substring of a word of the   *)
(* text, letter case included.                                              *)
includes(text, keyword) ==
  \E i \in DOMAIN text :
    <<keyword, text[i]>> \in
      {<<"question", "question">>, <<"?", "why?">>, <<"rebuttal", "rebuttal">>,
       <<"counter", "counterpoint">>, <<"however", "however">>,
       <<"clarify", "clarify">>, <<"explain", "unexplained">>}

(* A variant of analyzeResponseType that looks for the rebuttal keywords    *)
(* first.                                                                   *)
analyzeResponseType_rebuttal_first(content, userMessage) ==
  LET lowerContent == toLowerCase(content)
      lowerUserMessage == toLowerCase(userMessage)
  IN IF \/ includes(lowerContent, "rebuttal") \/ includes(lowerContent, "counter")
        \/ includes(lowerContent, "however")
     THEN "rebuttal"
     ELSE IF includes(lowerContent, "question") \/ includes(lowerContent, "?")
     THEN "question"
     ELSE IF includes(lowerContent, "clarify") \/ includes(lowerContent, "explain")
     THEN "clarification"
     ELSE "argument"

analyzeResponseType(content, userMessage) ==
  LET lowerContent == toLowerCase(content)
      lowerUserMessage == toLowerCase(userMessage)
  IN IF includes(lowerContent, "question") \/ includes(lowerContent, "?")
     THEN "question"
     ELSE IF \/ includes(lowerContent, "rebuttal") \/ includes(lowerContent, "counter")
             \/ includes(lowerContent, "however")
     THEN "rebuttal"
     ELSE IF includes(lowerContent, "clarify") \/ includes(lowerContent, "explain")
     THEN "clarification"
     ELSE "argument"

(* generateResponse classifies the text the completion returned. *)
responseType ==
  /\ Settled /\ Flushed
  /\ \E aiContent \in Texts, userMessage \in UserTexts :
       call' = [fn |-> "analyzeResponseType", pc |-> "returned",
                content |-> aiContent, userMessage |-> userMessage,
                responseType |-> analyzeResponseType(aiContent, userMessage)]
  /\ UNCHANGED <<now, sessions, messages, metrics, procs, out, channel, delivered>>

(* The classifications of generated texts, one at a time. *)
NextTypes == responseType \/ Return

SpecTypes == Init /\ [][NextTypes]_vars

(* The keyword occurs in the text, in any letter case. *)
Contains(text, keyword) ==
  \E i \in DOMAIN text :
    \/ keyword = "question" /\ text[i] = "Question"
    \/ keyword = "?" /\ text[i] = "why?"
    \/ keyword = "rebuttal" /\ text[i] = "REBUTTAL"
    \/ keyword = "counter" /\ text[i] = "counterpoint"
    \/ keyword = "however" /\ text[i] = "However"
    \/ keyword = "clarify" /\ text[i] = "clarify"
    \/ keyword = "explain" /\ text[i] = "unexplained"

(* C40: the type of a generated text follows a fixed priority over the      *)
(* keywords it contains: 'question' with 'question' or '?'; otherwise       *)
(* 'rebuttal' with 'rebuttal', 'counter' or 'however'; otherwise            *)
(* 'clarification' with 'clarify' or 'explain'; otherwise 'argument'.  It   *)
(* is one of these four values and is the same for every user message.      *)
C40_TypeByKeywordPriority ==
  call.fn = "analyzeResponseType" =>
    LET text == call.content
        asks == Contains(text, "question") \/ Contains(text, "?")
        rebuts == \/ Contains(text, "rebuttal") \/ Contains(text, "counter")
                  \/ Contains(text, "however")
        clarifies == Contains(text, "clarify") \/ Contains(text, "explain")
    IN /\ call.responseType \in {"question", "rebuttal", "clarification", "argument"}
       /\ call.responseType = "question" <=> asks
       /\ call.responseType = "rebuttal" <=> (~asks /\ rebuts)
       /\ call.responseType = "clarification" <=> (~asks /\ ~rebuts /\ clarifies)
       /\ call.responseType = "argument" <=> (~asks /\ ~rebuts /\ ~clarifies)
       /\ \A u \in UserTexts :
            analyzeResponseType(text, u) = call.responseType

(* a text with a rebuttal keyword in upper case and a question mark, next   *)
(* to a user message that is a rebuttal                                     *)
C40_QuestionBeatsRebuttal ==
  /\ call.fn = "analyzeResponseType"
  /\ call.content = <<"REBUTTAL", "why?">>
  /\ call.userMessage = <<"REBUTTAL">>
  /\ call.responseType = "question"

====
